---------------------------- MODULE Spec2Model ----------------------------
(***************************************************************************)
(* qonduit: type-erased handler registries (registry.rs) and the three     *)
(* buses built on them (command.rs, query.rs, event.rs).                   *)
(*                                                                         *)
(* A behaviour follows one registry from construction, through its         *)
(* register calls, into the bus that Bus::new freezes it into, and then    *)
(* through the dispatch calls made on that bus.  The three families share  *)
(* no state in the source, so each behaviour exercises one of them; the    *)
(* variable kind says which.                                               *)
(*                                                                         *)
(* An async dispatch is modelled by its suspension points: the code of a   *)
(* bus runs without suspending from the call up to the first               *)
(* handler.handle(..).await, and from one handler's completion to the next *)
(* handler's start or to the return.                                       *)
(***************************************************************************)
EXTENDS Integers, Sequences, FiniteSets, TLC

\* Bounds of the model.
MaxRegister == 3      \* register calls made on the registry
MaxDispatch == 2      \* dispatch calls made on the bus
MaxHandles == 2       \* bus handles made (the original and its clones)
MaxOps == 5           \* calls made by the owner of a registry or of bus handles (one more with handles)

Kinds == {"command", "query", "event"}
\* The concrete message types known to the program (their TypeId).
MsgTypes == {"T1", "T2"}
\* The payloads the callers send: those of the tests (IncEvent(1), IncEvent(2)).
Payloads == {1, 2}
\* Handler implementations the embedding application supplies.
\*   Double : Ok(msg.0 * 2)             (tests: TestCommandHandler)
\*   Fail   : Err(e), e naming the handler instance
\*   Inc    : counter.fetch_add(event.0); Ok(())   (tests: IncEventHandler)
\* Every handler owns the message value it is given and, once it has used it,
\* overwrites it: the worst a handler can do to the copy it received.
SingleBehaviours == {"Double", "Fail"}
EventBehaviours == {"Inc", "Fail"}

VARIABLES
    kind,         \* which registry/bus family this behaviour exercises
    cmdHandlers,  \* CommandHandlerRegistry.handlers : HashMap<TypeId, Arc<dyn CommandHandlerWrapper>>
    qryHandlers,  \* QueryHandlerRegistry.handlers   : HashMap<TypeId, Arc<dyn QueryHandlerWrapper>>
    evtHandlers,  \* EventHandlerRegistry.handlers   : HashMap<TypeId, Vec<Arc<dyn EventHandlerWrapper>>>
    nextId,       \* identity given to the next handler instance passed to register
    registered,   \* every register call made so far, in call order: its type and its handler
    strong,       \* strong count of the bus's Arc<Registry>; 0 while the registry is still being built
    calls,        \* every dispatch call made so far, in call order
    counter,      \* the AtomicU32 shared by the Inc handlers
    lookups,      \* every get_handler / get_handlers call made on the registry so far, with what it returned
    buses         \* every bus handle made so far (Bus::new, clone): the registry its Arc gives access to, and whether it was dropped

vars == <<kind, cmdHandlers, qryHandlers, evtHandlers, nextId, registered, strong, calls, counter,
         lookups, buses>>

---------------------------------------------------------------------------
\* Values

NoneV == [tag |-> "None"]
Some(x) == [tag |-> "Some", val |-> x]
Ok(v) == [tag |-> "Ok", val |-> v]
Err(e) == [tag |-> "Err", val |-> e]
Unit == <<>>
\* A panic: its message and the type name the message ends with, if any.
NoType == ""
Panic(m, T) == [tag |-> "Panic", msg |-> m, ty |-> T]

\* HashMap<TypeId, V>
EmptyMap == [t \in {} |-> NoneV]
MapGet(m, k) == IF k \in DOMAIN m THEN Some(m[k]) ELSE NoneV
\* Faulty variant of MapInsert: an existing entry is kept (entry(k).or_insert(v)).
MapInsertIfAbsent(m, k, v) ==
    IF k \in DOMAIN m THEN m ELSE [x \in (DOMAIN m) \cup {k} |-> IF x = k THEN v ELSE m[x]]
\* Faulty variant of MapInsert: the map is rebuilt with the new entry alone.
MapInsertAlone(m, k, v) == [x \in {k} |-> v]
MapInsert(m, k, v) == [x \in (DOMAIN m) \cup {k} |-> IF x = k THEN v ELSE m[x]]

\* Box<dyn Any + Send>: a value together with the TypeId of its concrete type.
BoxAny(tid, v) == [tid |-> tid, val |-> v]
\* Box<dyn Any>::downcast::<T>(): the value when the box holds a T.
Downcast(any, tid) == IF any.tid = tid THEN Some(any.val) ELSE NoneV
\* TypeId of Result<T::Response, T::Error>.
ResultTid(T) == <<"Result", T>>

\* Faulty variant of Wrapper: the wrapper is built for another message type
\* than the one register is called with.
WrapperForOther(T, h) == [tid |-> CHOOSE U \in MsgTypes : U # T, handler |-> h]

\* Arc::new(Box::new(handler) as Box<dyn XHandler<T>>): the erased wrapper
\* remembers the message type it was built for.
Wrapper(T, h) == [tid |-> T, handler |-> h]
\* Box::new(arc) as Box<dyn XHandler<T>> / Arc::new(arc) as Arc<dyn EventHandler<T>>:
\* the typed view the registry hands out for a lookup made with type T.
TypedHandle(T, w) == [ty |-> T, wrapper |-> w]

\* A message is a tuple struct with one u32 field: TestCommand(u32), IncEvent(u32).
Msg(p) == [f0 |-> p]
\* #[derive(Clone)] on an event: a new value built field by field.
Clone(e) == [f0 |-> e.f0]

---------------------------------------------------------------------------
\* Handlers supplied by the application

\* A handler instance: its identity and what its handle does.
Handler(id, beh) == [id |-> id, beh |-> beh]

\* The Result a handler's handle(msg) produces.
HandlerResult(h, m) ==
    CASE h.beh = "Double" -> Ok(m.f0 * 2)
      [] h.beh = "Fail" -> Err(h.id)
      [] h.beh = "Inc" -> Ok(Unit)

\* What handle(msg) adds to the shared counter (fetch_add).
HandlerEffect(h, m) == IF h.beh = "Inc" THEN m.f0 ELSE 0

\* The value of the handler's own message after handle ran: handle takes the
\* message by value and may change it.
HandlerMutation(h, m) == [m EXCEPT !.f0 = @ + h.id]

---------------------------------------------------------------------------
\* Registries (registry.rs)

\* Faulty variant of CommandGetHandler: the lookup ignores its type parameter
\* when the map holds an entry for another type.
CommandGetHandlerAnyKey(T) ==
    LET others == (DOMAIN cmdHandlers) \ {T}
        key == IF others = {} THEN T ELSE CHOOSE k \in others : TRUE
        got == MapGet(cmdHandlers, key)
    IN  IF got.tag = "None" THEN NoneV ELSE Some(TypedHandle(T, got.val))

\* get_handler::<T>() on a command or query registry whose handlers map is m:
\* handlers.get(&TypeId::of::<T>()).cloned().map(Box::new)
GetHandlerIn(m, T) ==
    LET got == MapGet(m, T)
    IN  IF got.tag = "None" THEN NoneV ELSE Some(TypedHandle(T, got.val))

\* CommandHandlerRegistry::get_handler::<C>()
CommandGetHandler(T) == GetHandlerIn(cmdHandlers, T)

\* QueryHandlerRegistry::get_handler::<Q>()
QueryGetHandler(T) == GetHandlerIn(qryHandlers, T)

\* Option<Vec<_>>::unwrap_or_default()
UnwrapOrDefault(opt) == IF opt.tag = "None" THEN <<>> ELSE opt.val

\* Faulty variant of EventGetHandlers: handlers of one implementation are
\* listed once.
EventGetHandlersDedup(T) ==
    LET v == UnwrapOrDefault(MapGet(evtHandlers, T))
        keep == {i \in 1..Len(v) : \A j \in 1..(i - 1) : v[j].handler.beh # v[i].handler.beh}
        pick == SelectSeq([i \in 1..Len(v) |-> i], LAMBDA i : i \in keep)
    IN  [i \in 1..Len(pick) |-> TypedHandle(T, v[pick[i]])]

\* get_handlers::<E>() on an event registry whose handlers map is m
GetHandlersIn(m, T) ==
    LET v == UnwrapOrDefault(MapGet(m, T))
    IN  [i \in 1..Len(v) |-> TypedHandle(T, v[i])]

\* EventHandlerRegistry::get_handlers::<E>()
EventGetHandlers(T) == GetHandlersIn(evtHandlers, T)

\* Faulty variant of Push: the element goes to the front (insert(0, x)).
PushFront(v, x) == <<x>> \o v

\* Vec::push
Push(v, x) == Append(v, x)

\* Faulty variant of Building: the builder keeps a mutable handle on the
\* registry after giving it to a bus.
BuildingOrShared == TRUE

\* The registry is still owned by the code that builds it.
Building == strong = 0

\* register::<T>(h) on a command or query registry whose handlers map is m:
\* handlers.insert(TypeId::of::<T>(), Arc::new(wrapped))
RegisterIn(m, T, h) == MapInsert(m, T, Wrapper(T, h))

\* Faulty variant of RegisterEventIn: the handler is inserted at the index
\* given by the number of other event types in the map, when the vector is
\* that long, instead of being pushed.
RegisterEventInAtTypeCount(m, T, h) ==
    LET handlers == UnwrapOrDefault(MapGet(m, T))
        others == Cardinality(DOMAIN m \ {T})
        at == IF others < Len(handlers) THEN others ELSE Len(handlers)
    IN  MapInsert(m, T, SubSeq(handlers, 1, at) \o <<Wrapper(T, h)>>
                            \o SubSeq(handlers, at + 1, Len(handlers)))

\* register::<E>(h) on an event registry whose handlers map is m:
\* handlers.entry(TypeId::of::<E>()).or_default().push(Arc::new(wrapped))
RegisterEventIn(m, T, h) ==
    LET handlers == UnwrapOrDefault(MapGet(m, T))   \* entry(..).or_default()
    IN  MapInsert(m, T, Push(handlers, Wrapper(T, h)))

\* CommandHandlerRegistry::register::<C>(handler)
CommandRegister(T, beh) ==
    /\ kind = "command"
    /\ Building
    /\ nextId <= MaxRegister
    /\ cmdHandlers' = RegisterIn(cmdHandlers, T, Handler(nextId, beh))
    /\ nextId' = nextId + 1
    /\ registered' = Append(registered, [ty |-> T, handler |-> Handler(nextId, beh)])
    /\ UNCHANGED <<kind, qryHandlers, evtHandlers, strong, calls, counter, lookups, buses>>

\* QueryHandlerRegistry::register::<Q>(handler)
QueryRegister(T, beh) ==
    /\ kind = "query"
    /\ Building
    /\ nextId <= MaxRegister
    /\ qryHandlers' = RegisterIn(qryHandlers, T, Handler(nextId, beh))
    /\ nextId' = nextId + 1
    /\ registered' = Append(registered, [ty |-> T, handler |-> Handler(nextId, beh)])
    /\ UNCHANGED <<kind, cmdHandlers, evtHandlers, strong, calls, counter, lookups, buses>>

\* Faulty variant of EventRegister: the new handler replaces the list, as
\* HashMap::insert does in the command and query registries.
EventRegisterOverwrite(T, beh) ==
    /\ kind = "event"
    /\ Building
    /\ nextId <= MaxRegister
    /\ evtHandlers' = MapInsert(evtHandlers, T, <<Wrapper(T, Handler(nextId, beh))>>)
    /\ nextId' = nextId + 1
    /\ registered' = Append(registered, [ty |-> T, handler |-> Handler(nextId, beh)])
    /\ UNCHANGED <<kind, cmdHandlers, qryHandlers, strong, calls, counter, lookups, buses>>

\* Faulty variant of EventRegister: get_handlers hands out the registry's own
\* vector, so that a handler pushed later shows up in the lists returned
\* before.
EventRegisterLive(T, beh) ==
    /\ kind = "event"
    /\ Building
    /\ nextId <= MaxRegister
    /\ evtHandlers' = RegisterEventIn(evtHandlers, T, Handler(nextId, beh))
    /\ nextId' = nextId + 1
    /\ registered' = Append(registered, [ty |-> T, handler |-> Handler(nextId, beh)])
    /\ lookups' = [k \in DOMAIN lookups |->
                      IF lookups[k].ty = T
                      THEN [lookups[k] EXCEPT !.got = GetHandlersIn(evtHandlers', T)]
                      ELSE lookups[k]]
    /\ UNCHANGED <<kind, cmdHandlers, qryHandlers, strong, calls, counter, buses>>

\* EventHandlerRegistry::register::<E>(handler)
EventRegister(T, beh) ==
    /\ kind = "event"
    /\ Building
    /\ nextId <= MaxRegister
    /\ evtHandlers' = RegisterEventIn(evtHandlers, T, Handler(nextId, beh))
    /\ nextId' = nextId + 1
    /\ registered' = Append(registered, [ty |-> T, handler |-> Handler(nextId, beh)])
    /\ UNCHANGED <<kind, cmdHandlers, qryHandlers, strong, calls, counter, lookups, buses>>

---------------------------------------------------------------------------
\* Buses (command.rs, query.rs, event.rs)

\* CommandBus::new / QueryBus::new / EventBus::new: the registry moves into an Arc.
BusNew ==
    /\ Building
    /\ strong' = 1
    /\ UNCHANGED <<kind, cmdHandlers, qryHandlers, evtHandlers, nextId, registered, calls, counter, lookups, buses>>

\* #[derive(Clone)] on a bus: Arc::clone of the registry.
BusClone ==
    /\ strong >= 1
    /\ strong < MaxHandles
    /\ strong' = strong + 1
    /\ UNCHANGED <<kind, cmdHandlers, qryHandlers, evtHandlers, nextId, registered, calls, counter, lookups, buses>>

\* Dropping a bus handle while another one is still alive.
BusDrop ==
    /\ strong > 1
    /\ strong' = strong - 1
    /\ UNCHANGED <<kind, cmdHandlers, qryHandlers, evtHandlers, nextId, registered, calls, counter, lookups, buses>>

\* Faulty variant of NewCall: the bus remembers where the last dispatch of
\* the type stopped on an error, and the next one goes on from there.
NewCallResume(T, m, list) ==
    LET failed == {i \in 1..Len(calls) :
                      /\ calls[i].ty = T
                      /\ calls[i].pc = "done"
                      /\ calls[i].outcome.tag = "Err"}
        last == CHOOSE i \in failed : \A j \in failed : j <= i
    IN  [ty |-> T, msg |-> m, pc |-> "running", list |-> list,
         idx |-> IF failed = {} THEN 0 ELSE calls[last].idx,
         arg |-> m, invoked |-> <<>>, outcome |-> NoneV]

\* A dispatch call: the message type and value it was given, where it stands
\* (pc), the handlers it holds (list) and the one it is in (idx), the message
\* value that handler owns (arg), the handler invocations it made so far (the
\* handler instance, the message value it received, the value it left behind
\* and whether its handle future has completed) and its outcome once it has
\* one.
NewCall(T, m, list) ==
    [ty |-> T, msg |-> m, pc |-> "running", list |-> list, idx |-> 0,
     arg |-> m, invoked |-> <<>>, outcome |-> NoneV]

InFlight(c) == c.pc = "handling"

\* The call returns to its caller.
Return(c, result) == [c EXCEPT !.pc = "done", !.outcome = result]
\* The call unwinds.
Abort(c, m, T) == [c EXCEPT !.pc = "panicked", !.outcome = Panic(m, T)]

\* The messages of the wrappers' expect calls.
DowncastMessage ==
    CASE kind = "command" -> "Cannot downcast command to correct type"
      [] kind = "query" -> "Cannot downcast query to correct type"
      [] kind = "event" -> "Cannot downcast event to correct type"
DowncastResultMessage ==
    CASE kind = "command" -> "Cannot downcast command response to correct type"
      [] kind = "query" -> "Cannot downcast query response to correct type"
      [] kind = "event" -> "Cannot downcast event handle result to correct type"

\* impl XHandler<T> for Arc<dyn XHandlerWrapper>::handle up to the inner
\* handler's start: the message is boxed, execute downcasts it to the type the
\* wrapper was built for and calls the wrapped handler.
StartHandle(c, th, m) ==
    LET any == BoxAny(th.ty, m)
        got == Downcast(any, th.wrapper.tid)
    IN  IF got.tag = "None"
        THEN Abort(c, DowncastMessage, NoType)
        ELSE [c EXCEPT !.pc = "handling",
                       !.arg = got.val,
                       !.invoked = Append(@, [id |-> th.wrapper.handler.id,
                                              msg |-> got.val, left |-> got.val,
                                              fin |-> FALSE])]

\* Faulty variant of FinishHandle: an error comes back as a default error
\* value instead of the value the handler returned.
FinishHandleErrDefault(th, r) ==
    LET any == BoxAny(ResultTid(th.wrapper.tid), r)
        got == Downcast(any, ResultTid(th.ty))
    IN  IF got.tag = "Some" /\ got.val.tag = "Err"
        THEN Some(Err(0))
        ELSE got

\* The rest of it once the inner handler has returned r: execute boxes the
\* Result, handle downcasts it to Result<T::Response, T::Error>.
FinishHandle(th, r) ==
    LET any == BoxAny(ResultTid(th.wrapper.tid), r)
    IN  Downcast(any, ResultTid(th.ty))

\* Faulty variant of Delivered: the handlers are given one shared value.
DeliveredShared(c) == c.arg

\* The message value EventBus::dispatch gives to the next handler: event.clone().
Delivered(c) == Clone(c.msg)

\* Faulty variant of EventLoop: an empty handler list is treated like a
\* missing command handler.
EventLoopRequireHandler(c) ==
    IF Len(c.list) = 0
    THEN Abort(c, "No handler registered for event", c.ty)
    ELSE IF c.idx < Len(c.list)
         THEN [c EXCEPT !.idx = @ + 1,
                        !.pc = "handling",
                        !.arg = Clone(c.msg),
                        !.invoked = Append(@, [id |-> c.list[c.idx + 1].wrapper.handler.id,
                                               msg |-> Clone(c.msg), left |-> Clone(c.msg),
                                               fin |-> FALSE])]
         ELSE [c EXCEPT !.pc = "done", !.outcome = Ok(Unit)]

\* Faulty variant of EventLoop: the futures of two handlers are started
\* together instead of awaiting the first before the second is called.
EventLoopJoinTwo(c) ==
    IF c.idx < Len(c.list)
    THEN LET c1 == StartHandle([c EXCEPT !.idx = @ + 1], c.list[c.idx + 1], Clone(c.msg))
         IN  IF c1.pc = "handling" /\ c1.idx < Len(c1.list)
             THEN StartHandle([c1 EXCEPT !.idx = @ + 1], c1.list[c1.idx + 1], Clone(c.msg))
             ELSE c1
    ELSE Return(c, Ok(Unit))

\* Faulty variant of EventLoop: the handlers are spawned as tasks of their
\* own and dispatch returns without awaiting them.
EventLoopSpawn(c) ==
    LET started == [j \in 1..Len(c.list) |->
                       [id |-> c.list[j].wrapper.handler.id, msg |-> Clone(c.msg),
                        left |-> Clone(c.msg), fin |-> FALSE]]
    IN  [c EXCEPT !.idx = Len(c.list),
                  !.invoked = started,
                  !.pc = "done",
                  !.outcome = Ok(Unit)]

\* EventBus::dispatch, the for loop from its current position to the next
\* suspension point or to the return.
EventLoop(c) ==
    IF c.idx < Len(c.list)
    THEN StartHandle([c EXCEPT !.idx = @ + 1], c.list[c.idx + 1], Delivered(c))
    ELSE Return(c, Ok(Unit))

\* Faulty variant of SingleDispatch: a missing handler is reported as an
\* ordinary error value.
SingleDispatchNotFoundErr(T, m, got, what) ==
    IF got.tag = "None"
    THEN Return(NewCall(T, m, <<>>), Err(what))
    ELSE StartHandle([NewCall(T, m, <<got.val>>) EXCEPT !.idx = 1], got.val, m)

\* CommandBus::dispatch / QueryBus::dispatch up to the first suspension point.
SingleDispatch(T, m, got, what) ==
    IF got.tag = "None"
    THEN Abort(NewCall(T, m, <<>>), what, T)
    ELSE StartHandle([NewCall(T, m, <<got.val>>) EXCEPT !.idx = 1], got.val, m)

CanDispatch == strong >= 1 /\ Len(calls) < MaxDispatch

\* CommandBus::dispatch::<C>(command)
CommandDispatch(T, p) ==
    /\ kind = "command"
    /\ CanDispatch
    /\ calls' = Append(calls, SingleDispatch(T, Msg(p), CommandGetHandler(T),
                                             "No handler registered for command"))
    /\ UNCHANGED <<kind, cmdHandlers, qryHandlers, evtHandlers, nextId, registered, strong, counter, lookups, buses>>

\* QueryBus::dispatch::<Q>(query)
QueryDispatch(T, p) ==
    /\ kind = "query"
    /\ CanDispatch
    /\ calls' = Append(calls, SingleDispatch(T, Msg(p), QueryGetHandler(T),
                                             "No handler registered for query"))
    /\ UNCHANGED <<kind, cmdHandlers, qryHandlers, evtHandlers, nextId, registered, strong, counter, lookups, buses>>

\* EventBus::dispatch::<E>(event)
EventDispatch(T, p) ==
    /\ kind = "event"
    /\ CanDispatch
    /\ calls' = Append(calls, EventLoop(NewCall(T, Msg(p), EventGetHandlers(T))))
    /\ UNCHANGED <<kind, cmdHandlers, qryHandlers, evtHandlers, nextId, registered, strong, counter, lookups, buses>>

\* Faulty variant of AfterHandle: EventBus::dispatch ignores a handler's
\* error and goes on with the next handler.
AfterHandleNoShortCircuit(c, res) ==
    IF res.tag = "None"
    THEN Abort(c, DowncastResultMessage, NoType)
    ELSE IF kind = "event" THEN EventLoop(c) ELSE Return(c, res.val)

\* Faulty variant of AfterHandle: the handler's Result is unwrapped.
AfterHandleUnwrap(c, res) ==
    IF res.tag = "None"
    THEN Abort(c, DowncastResultMessage, NoType)
    ELSE IF res.val.tag = "Err"
         THEN Abort(c, "called Result::unwrap() on an Err value", NoType)
         ELSE IF kind = "event" THEN EventLoop(c) ELSE Return(c, res.val)

\* What a dispatch does with the Result its handler's handle returned.
AfterHandle(c, res) ==
    IF res.tag = "None"
    THEN Abort(c, DowncastResultMessage, NoType)
    ELSE IF kind = "event"
         THEN IF res.val.tag = "Err"
              THEN Return(c, res.val)      \* the ? operator
              ELSE EventLoop(c)
         ELSE Return(c, res.val)

\* What the completed handler invocations inv[1..n] added to the counter.
RECURSIVE InvokedEffects(_, _)
InvokedEffects(inv, n) ==
    IF n = 0
    THEN 0
    ELSE InvokedEffects(inv, n - 1)
         + (IF inv[n].fin
            THEN HandlerEffect(registered[inv[n].id].handler, inv[n].msg)
            ELSE 0)

\* Faulty variant of HandlerReturn: the position in the handler list is
\* shared by the dispatches in flight instead of being local to each.
HandlerReturnSharedCursor(i) ==
    /\ i \in 1..Len(calls)
    /\ InFlight(calls[i])
    /\ LET c == calls[i]
           th == c.list[c.idx]
           h == th.wrapper.handler
           r == HandlerResult(h, c.arg)
           idxs == {calls[k].idx : k \in {n \in 1..Len(calls) : InFlight(calls[n])}}
           cursor == CHOOSE x \in idxs : \A y \in idxs : y <= x
           c1 == [c EXCEPT !.arg = HandlerMutation(h, @),
                           !.invoked[Len(c.invoked)].left = HandlerMutation(h, c.arg),
                           !.invoked[Len(c.invoked)].fin = TRUE,
                           !.idx = IF cursor <= Len(c.list) THEN cursor ELSE @]
       IN  /\ counter' = counter + HandlerEffect(h, c.arg)
           /\ calls' = [calls EXCEPT ![i] = AfterHandle(c1, FinishHandle(th, r))]
    /\ UNCHANGED <<kind, cmdHandlers, qryHandlers, evtHandlers, nextId, registered, strong, lookups, buses>>

\* Faulty variant of HandlerReturn: the handler works on the message of the
\* most recent dispatch instead of the one it was called with.
HandlerReturnLatestMessage(i) ==
    /\ i \in 1..Len(calls)
    /\ InFlight(calls[i])
    /\ LET c == calls[i]
           th == c.list[c.idx]
           h == th.wrapper.handler
           latest == calls[Len(calls)].msg
           r == HandlerResult(h, latest)
           c1 == [c EXCEPT !.arg = HandlerMutation(h, @),
                           !.invoked[Len(c.invoked)].left = HandlerMutation(h, c.arg),
                           !.invoked[Len(c.invoked)].fin = TRUE]
       IN  /\ counter' = counter + HandlerEffect(h, latest)
           /\ calls' = [calls EXCEPT ![i] = AfterHandle(c1, FinishHandle(th, r))]
    /\ UNCHANGED <<kind, cmdHandlers, qryHandlers, evtHandlers, nextId, registered, strong, lookups, buses>>

\* Faulty variant of HandlerReturn: when a handler returns an error, what the
\* handlers before it did in this dispatch is undone.
HandlerReturnRollback(i) ==
    /\ i \in 1..Len(calls)
    /\ InFlight(calls[i])
    /\ LET c == calls[i]
           th == c.list[c.idx]
           h == th.wrapper.handler
           r == HandlerResult(h, c.arg)
           c1 == [c EXCEPT !.arg = HandlerMutation(h, @),
                           !.invoked[Len(c.invoked)].left = HandlerMutation(h, c.arg),
                           !.invoked[Len(c.invoked)].fin = TRUE]
       IN  /\ counter' = IF r.tag = "Err"
                         THEN counter - InvokedEffects(c.invoked, Len(c.invoked))
                         ELSE counter + HandlerEffect(h, c.arg)
           /\ calls' = [calls EXCEPT ![i] = AfterHandle(c1, FinishHandle(th, r))]
    /\ UNCHANGED <<kind, cmdHandlers, qryHandlers, evtHandlers, nextId, registered, strong, lookups, buses>>

\* The handler call i is suspended in completes: the handler's effect takes
\* place and the dispatch runs on to its next suspension point or to its end.
HandlerReturn(i) ==
    /\ i \in 1..Len(calls)
    /\ InFlight(calls[i])
    /\ LET c == calls[i]
           th == c.list[c.idx]
           h == th.wrapper.handler
           r == HandlerResult(h, c.arg)
           c1 == [c EXCEPT !.arg = HandlerMutation(h, @),
                           !.invoked[Len(c.invoked)].left = HandlerMutation(h, c.arg),
                           !.invoked[Len(c.invoked)].fin = TRUE]
       IN  /\ counter' = counter + HandlerEffect(h, c.arg)
           /\ calls' = [calls EXCEPT ![i] = AfterHandle(c1, FinishHandle(th, r))]
    /\ UNCHANGED <<kind, cmdHandlers, qryHandlers, evtHandlers, nextId, registered, strong, lookups, buses>>

\* Faulty variant of Cancel: dropping the dispatch undoes what its completed
\* handlers did.
CancelRollback(i) ==
    /\ i \in 1..Len(calls)
    /\ InFlight(calls[i])
    /\ calls' = [calls EXCEPT ![i].pc = "cancelled"]
    /\ counter' = counter - InvokedEffects(calls[i].invoked, Len(calls[i].invoked))
    /\ UNCHANGED <<kind, cmdHandlers, qryHandlers, evtHandlers, nextId, registered, strong, lookups, buses>>

\* The caller drops the future of call i while it is suspended in a handler.
Cancel(i) ==
    /\ i \in 1..Len(calls)
    /\ InFlight(calls[i])
    /\ calls' = [calls EXCEPT ![i].pc = "cancelled"]
    /\ UNCHANGED <<kind, cmdHandlers, qryHandlers, evtHandlers, nextId, registered, strong, counter, lookups, buses>>

---------------------------------------------------------------------------
\* Bus handles told apart (#[derive(Clone)] on the three buses)

\* The registry of the family in use, as one value.
Registry == [cmd |-> cmdHandlers, qry |-> qryHandlers, evt |-> evtHandlers]

\* HashMap::new() gives a map hash keys of its own (RandomState), so the
\* order in which a map yields its keys differs from map to map. KeyOrders
\* are the orders a map of the message types can have; FirstKeys is the one
\* the map of the first registry has (the message types are interchangeable).
KeyOrders ==
    {q \in [1..Cardinality(MsgTypes) -> MsgTypes] : \A i, j \in DOMAIN q : q[i] = q[j] => i = j}
FirstKeys == CHOOSE q \in KeyOrders : TRUE

\* A bus handle: the registry its Arc points to. Nothing can change a
\* registry inside an Arc, so the pointer is kept as the value pointed to.
BusHandle(reg) == [live |-> TRUE, registry |-> reg, keys |-> FirstKeys]

\* The calls made on the registry, to make bus handles and on bus handles.
BusOps == Len(registered) + Len(buses) + Len(calls)

\* Bus::new(registry), keeping the handle it returns.
BusNewHandle ==
    /\ Building
    /\ BusOps <= MaxOps
    /\ strong' = 1
    /\ buses' = <<BusHandle(Registry)>>
    /\ UNCHANGED <<kind, cmdHandlers, qryHandlers, evtHandlers, nextId, registered, calls, counter, lookups>>

CanClone(b) ==
    /\ b \in 1..Len(buses)
    /\ buses[b].live
    /\ Len(buses) < MaxHandles
    /\ BusOps <= MaxOps

\* Faulty variant of BusCloneHandle: the clone gets a registry of its own,
\* newly made (Default), instead of the Arc of the bus cloned.
BusCloneHandleFresh(b) ==
    /\ CanClone(b)
    /\ strong' = strong + 1
    /\ buses' = Append(buses, BusHandle([cmd |-> EmptyMap, qry |-> EmptyMap, evt |-> EmptyMap]))
    /\ UNCHANGED <<kind, cmdHandlers, qryHandlers, evtHandlers, nextId, registered, calls, counter, lookups>>

\* bus.clone() on handle b: Arc::clone of its registry field.
BusCloneHandle(b) ==
    /\ CanClone(b)
    /\ strong' = strong + 1
    /\ buses' = Append(buses, BusHandle(buses[b].registry))
    /\ UNCHANGED <<kind, cmdHandlers, qryHandlers, evtHandlers, nextId, registered, calls, counter, lookups>>

\* drop(bus) on handle b, which no dispatch in flight borrows, while another
\* handle is alive.
BusDropHandle(b) ==
    /\ b \in 1..Len(buses)
    /\ buses[b].live
    /\ strong > 1
    /\ \A i \in 1..Len(calls) : InFlight(calls[i]) => calls[i].via # b
    /\ strong' = strong - 1
    /\ buses' = [buses EXCEPT ![b].live = FALSE]
    /\ UNCHANGED <<kind, cmdHandlers, qryHandlers, evtHandlers, nextId, registered, calls, counter, lookups>>

\* Faulty variant of DispatchVia: the registry sits behind a lock that an
\* abort poisons, so every dispatch after an aborted one aborts as well.
DispatchViaPoisoned(b, T, p) ==
    /\ b \in 1..Len(buses)
    /\ buses[b].live
    /\ Len(calls) < MaxDispatch
    /\ BusOps <= MaxOps
    /\ LET reg == buses[b].registry
           c == CASE kind = "command" ->
                       SingleDispatch(T, Msg(p), GetHandlerIn(reg.cmd, T),
                                      "No handler registered for command")
                  [] kind = "query" ->
                       SingleDispatch(T, Msg(p), GetHandlerIn(reg.qry, T),
                                      "No handler registered for query")
                  [] kind = "event" ->
                       EventLoop(NewCall(T, Msg(p), GetHandlersIn(reg.evt, T)))
           poisoned == \E i \in 1..Len(calls) : calls[i].pc = "panicked"
       IN  calls' = Append(calls, [via |-> b] @@
                              (IF poisoned
                               THEN Abort(NewCall(T, Msg(p), <<>>), "PoisonError", NoType)
                               ELSE c))
    /\ UNCHANGED <<kind, cmdHandlers, qryHandlers, evtHandlers, nextId, registered, strong, counter, lookups, buses>>

\* Faulty variant of DispatchVia: the handler, or the handler list, is taken
\* from the first entry the map yields when iterated (values().next())
\* instead of the entry under the TypeId of the message.
DispatchViaFirstKey(b, T, p) ==
    /\ b \in 1..Len(buses)
    /\ buses[b].live
    /\ Len(calls) < MaxDispatch
    /\ BusOps <= MaxOps
    /\ LET reg == buses[b].registry
           m == CASE kind = "command" -> reg.cmd
                  [] kind = "query" -> reg.qry
                  [] kind = "event" -> reg.evt
           held == {i \in DOMAIN buses[b].keys : buses[b].keys[i] \in DOMAIN m}
           first == IF held = {} THEN T
                    ELSE buses[b].keys[CHOOSE i \in held : \A j \in held : i <= j]
           got == MapGet(m, first)
           v == UnwrapOrDefault(got)
           c == CASE kind = "command" ->
                       SingleDispatch(T, Msg(p),
                                      IF got.tag = "None" THEN NoneV
                                      ELSE Some(TypedHandle(T, got.val)),
                                      "No handler registered for command")
                  [] kind = "query" ->
                       SingleDispatch(T, Msg(p),
                                      IF got.tag = "None" THEN NoneV
                                      ELSE Some(TypedHandle(T, got.val)),
                                      "No handler registered for query")
                  [] kind = "event" ->
                       EventLoop(NewCall(T, Msg(p), [i \in 1..Len(v) |-> TypedHandle(T, v[i])]))
       IN  calls' = Append(calls, [via |-> b] @@ c)
    /\ UNCHANGED <<kind, cmdHandlers, qryHandlers, evtHandlers, nextId, registered, strong, counter, lookups, buses>>

\* bus.dispatch(message) on handle b, up to the first suspension point: the
\* dispatch of the family in use, with self.registry being the registry of b.
DispatchVia(b, T, p) ==
    /\ b \in 1..Len(buses)
    /\ buses[b].live
    /\ Len(calls) < MaxDispatch
    /\ BusOps <= MaxOps
    /\ LET reg == buses[b].registry
           c == CASE kind = "command" ->
                       SingleDispatch(T, Msg(p), GetHandlerIn(reg.cmd, T),
                                      "No handler registered for command")
                  [] kind = "query" ->
                       SingleDispatch(T, Msg(p), GetHandlerIn(reg.qry, T),
                                      "No handler registered for query")
                  [] kind = "event" ->
                       EventLoop(NewCall(T, Msg(p), GetHandlersIn(reg.evt, T)))
       IN  calls' = Append(calls, [via |-> b] @@ c)
    /\ UNCHANGED <<kind, cmdHandlers, qryHandlers, evtHandlers, nextId, registered, strong, counter, lookups, buses>>

---------------------------------------------------------------------------
\* A second bus built from the same register calls (macros.rs)

\* CommandHandlerRegistry::new(), QueryHandlerRegistry::new(),
\* EventHandlerRegistry::new()
NewRegistry == [cmd |-> EmptyMap, qry |-> EmptyMap, evt |-> EmptyMap]

\* registry.register::<$ty>($handler) for one 'ty => handler' pair, on the
\* registry of the family in use.
RegisterPair(reg, pair) ==
    CASE kind = "command" -> [reg EXCEPT !.cmd = RegisterIn(@, pair.ty, pair.handler)]
      [] kind = "query" -> [reg EXCEPT !.qry = RegisterIn(@, pair.ty, pair.handler)]
      [] kind = "event" -> [reg EXCEPT !.evt = RegisterEventIn(@, pair.ty, pair.handler)]

\* Faulty variant of RegisterAll: the repetition is expanded from the last
\* pair to the first.
RECURSIVE RegisterAllReversed(_, _, _)
RegisterAllReversed(reg, pairs, n) ==
    IF n = 0
    THEN reg
    ELSE RegisterAllReversed(RegisterPair(reg, pairs[n]), pairs, n - 1)

\* $(registry.register::<$ty>($handler);)* : the first n pairs are registered
\* in the order they are listed in.
RECURSIVE RegisterAll(_, _, _)
RegisterAll(reg, pairs, n) ==
    IF n = 0
    THEN reg
    ELSE RegisterPair(RegisterAll(reg, pairs, n - 1), pairs[n])

\* command_bus!(C1 => h1, ..) / query_bus!(..) / event_bus!(..): a new
\* registry, the pairs registered, the registry given to Bus::new.
BusMacro(pairs) == BusHandle(RegisterAll(NewRegistry, pairs, Len(pairs)))

\* The bus macro is used with the pairs of the register calls that made the
\* registry of the first bus, and its bus is kept as a second handle.
MacroBus ==
    /\ Len(buses) = 1
    /\ BusOps <= MaxOps
    /\ buses' = Append(buses, [made |-> "macro"] @@ BusMacro(registered))
    /\ UNCHANGED <<kind, cmdHandlers, qryHandlers, evtHandlers, nextId, registered, strong, calls, counter, lookups>>

\* The ways of making the register calls of pairs in another interleaving:
\* the same calls, those for one type in the order they have in pairs.
Interleavings(pairs) ==
    {q \in [1..Len(pairs) -> {pairs[i] : i \in 1..Len(pairs)}] :
        /\ \A i, j \in 1..Len(pairs) : q[i] = q[j] => i = j
        /\ \A T \in MsgTypes :
              SelectSeq(q, LAMBDA r : r.ty = T) = SelectSeq(pairs, LAMBDA r : r.ty = T)}

\* A second registry is filled with the register calls of the first, the
\* calls for different types interleaved in some other way, and given to
\* Bus::new; the bus is kept as a second handle.
InterleavedBus ==
    /\ Len(buses) = 1
    /\ BusOps <= MaxOps
    /\ \E q \in Interleavings(registered) :
          buses' = Append(buses, [made |-> "interleaved", pairs |-> q]
                                     @@ BusHandle(RegisterAll(NewRegistry, q, Len(q))))
    /\ UNCHANGED <<kind, cmdHandlers, qryHandlers, evtHandlers, nextId, registered, strong, calls, counter, lookups>>

\* A second registry is made with new(), its map with hash keys of its own,
\* the register calls of the first are made on it in the same order, and it
\* is given to Bus::new; the bus is kept as a second handle.
ReplayedBus ==
    /\ Len(buses) = 1
    /\ BusOps <= MaxOps
    /\ \E q \in KeyOrders :
          buses' = Append(buses,
                          [made |-> "replayed"] @@
                          [BusHandle(RegisterAll(NewRegistry, registered, Len(registered)))
                              EXCEPT !.keys = q])
    /\ UNCHANGED <<kind, cmdHandlers, qryHandlers, evtHandlers, nextId, registered, strong, calls, counter, lookups>>

---------------------------------------------------------------------------
\* Direct use of a registry by the code that owns it (registry.rs)

\* The calls made on the registry and on handles it returned.
Ops == Len(registered) + Len(lookups) + Len(calls)
CanLookup == Building /\ Ops < MaxOps

\* A lookup call: the type asked for, how many register calls had been made
\* when it was made, and the value it returned.
Lookup(T, got) == [ty |-> T, at |-> Len(registered), got |-> got]

\* Faulty variant of CommandGetHandlerCall: the lookup takes the entry out of
\* the map (HashMap::remove) instead of cloning it.
CommandGetHandlerCallTake(T) ==
    /\ kind = "command"
    /\ CanLookup
    /\ lookups' = Append(lookups, Lookup(T, CommandGetHandler(T)))
    /\ cmdHandlers' = [x \in (DOMAIN cmdHandlers) \ {T} |-> cmdHandlers[x]]
    /\ UNCHANGED <<kind, qryHandlers, evtHandlers, nextId, registered, strong, calls, counter, buses>>

\* registry.get_handler::<C>() called on a CommandHandlerRegistry
CommandGetHandlerCall(T) ==
    /\ kind = "command"
    /\ CanLookup
    /\ lookups' = Append(lookups, Lookup(T, CommandGetHandler(T)))
    /\ UNCHANGED <<kind, cmdHandlers, qryHandlers, evtHandlers, nextId, registered, strong, calls, counter, buses>>

\* registry.get_handler::<Q>() called on a QueryHandlerRegistry
QueryGetHandlerCall(T) ==
    /\ kind = "query"
    /\ CanLookup
    /\ lookups' = Append(lookups, Lookup(T, QueryGetHandler(T)))
    /\ UNCHANGED <<kind, cmdHandlers, qryHandlers, evtHandlers, nextId, registered, strong, calls, counter, buses>>

\* Faulty variant of EventGetHandlersCall: the lookup moves the list out of
\* the registry (mem::take) instead of cloning it.
EventGetHandlersCallTake(T) ==
    /\ kind = "event"
    /\ CanLookup
    /\ lookups' = Append(lookups, Lookup(T, EventGetHandlers(T)))
    /\ evtHandlers' = [x \in DOMAIN evtHandlers |-> IF x = T THEN <<>> ELSE evtHandlers[x]]
    /\ UNCHANGED <<kind, cmdHandlers, qryHandlers, nextId, registered, strong, calls, counter, buses>>

\* registry.get_handlers::<E>() called on an EventHandlerRegistry
EventGetHandlersCall(T) ==
    /\ kind = "event"
    /\ CanLookup
    /\ lookups' = Append(lookups, Lookup(T, EventGetHandlers(T)))
    /\ UNCHANGED <<kind, cmdHandlers, qryHandlers, evtHandlers, nextId, registered, strong, calls, counter, buses>>

\* The handles lookup l returned, as a list: none or one for get_handler,
\* the vector for get_handlers.
HandlesOf(l) ==
    IF kind = "event"
    THEN l.got
    ELSE IF l.got.tag = "None" THEN <<>> ELSE <<l.got.val>>

\* Faulty variant of HandleCall: a handle of the command or query registry
\* holds the registry and the type, and looks the handler up when it is
\* called.
HandleCallLate(k, j, p) ==
    /\ k \in 1..Len(lookups)
    /\ j \in 1..Len(HandlesOf(lookups[k]))
    /\ Ops < MaxOps
    /\ LET now == IF kind = "event"
                  THEN lookups[k].got
                  ELSE <<GetHandlerIn(IF kind = "command" THEN cmdHandlers ELSE qryHandlers,
                                      lookups[k].ty).val>>
           th == now[j]
           c == [NewCall(th.ty, Msg(p), <<th>>) EXCEPT !.idx = 1]
       IN  calls' = Append(calls, [from |-> <<k, j>>, at |-> Len(registered)]
                                      @@ StartHandle(c, th, Msg(p)))
    /\ UNCHANGED <<kind, cmdHandlers, qryHandlers, evtHandlers, nextId, registered, strong, counter, lookups, buses>>

\* handle.handle(message) called on handle j of lookup k, up to the
\* suspension in the wrapped handler. The call is kept in calls, with the
\* handle it was made on and the number of register calls made before it.
HandleCall(k, j, p) ==
    /\ k \in 1..Len(lookups)
    /\ j \in 1..Len(HandlesOf(lookups[k]))
    /\ Ops < MaxOps
    /\ LET th == HandlesOf(lookups[k])[j]
           c == [NewCall(th.ty, Msg(p), <<th>>) EXCEPT !.idx = 1]
       IN  calls' = Append(calls, [from |-> <<k, j>>, at |-> Len(registered)]
                                      @@ StartHandle(c, th, Msg(p)))
    /\ UNCHANGED <<kind, cmdHandlers, qryHandlers, evtHandlers, nextId, registered, strong, counter, lookups, buses>>

\* The wrapped handler of direct call i completes and handle returns its
\* Result to the caller.
HandleReturn(i) ==
    /\ i \in 1..Len(calls)
    /\ InFlight(calls[i])
    /\ LET c == calls[i]
           th == c.list[c.idx]
           h == th.wrapper.handler
           r == HandlerResult(h, c.arg)
           c1 == [c EXCEPT !.arg = HandlerMutation(h, @),
                           !.invoked[Len(c.invoked)].left = HandlerMutation(h, c.arg),
                           !.invoked[Len(c.invoked)].fin = TRUE]
           res == FinishHandle(th, r)
       IN  /\ counter' = counter + HandlerEffect(h, c.arg)
           /\ calls' = [calls EXCEPT ![i] = IF res.tag = "None"
                                            THEN Abort(c1, DowncastResultMessage, NoType)
                                            ELSE Return(c1, res.val)]
    /\ UNCHANGED <<kind, cmdHandlers, qryHandlers, evtHandlers, nextId, registered, strong, lookups, buses>>

---------------------------------------------------------------------------
\* Specification: one caller, which awaits each dispatch before the next.

Init ==
    /\ kind \in Kinds
    /\ cmdHandlers = EmptyMap
    /\ qryHandlers = EmptyMap
    /\ evtHandlers = EmptyMap
    /\ nextId = 1
    /\ registered = <<>>
    /\ strong = 0
    /\ calls = <<>>
    /\ counter = 0
    /\ lookups = <<>>
    /\ buses = <<>>

NoneInFlight == \A i \in 1..Len(calls) : ~InFlight(calls[i])

Register ==
    \/ \E T \in MsgTypes, beh \in SingleBehaviours : CommandRegister(T, beh)
    \/ \E T \in MsgTypes, beh \in SingleBehaviours : QueryRegister(T, beh)
    \/ \E T \in MsgTypes, beh \in EventBehaviours : EventRegister(T, beh)

Dispatch ==
    \/ \E T \in MsgTypes, p \in Payloads : CommandDispatch(T, p)
    \/ \E T \in MsgTypes, p \in Payloads : QueryDispatch(T, p)
    \/ \E T \in MsgTypes, p \in Payloads : EventDispatch(T, p)

Next ==
    \/ Register
    \/ BusNew
    \/ BusClone
    \/ BusDrop
    \/ (NoneInFlight /\ Dispatch)
    \/ \E i \in 1..MaxDispatch : HandlerReturn(i)

Spec == Init /\ [][Next]_vars

\* One caller on one bus handle, which may also drop a dispatch it is
\* awaiting.
NextCancel ==
    \/ Register
    \/ BusNew
    \/ (NoneInFlight /\ Dispatch)
    \/ \E i \in 1..MaxDispatch : HandlerReturn(i)
    \/ \E i \in 1..MaxDispatch : Cancel(i)

SpecCancel == Init /\ [][NextCancel]_vars

\* The owner of a registry that is not given to a bus: it registers, looks
\* handlers up and calls the handles it got, awaiting each call, in any
\* order.
GetHandler ==
    \/ \E T \in MsgTypes : CommandGetHandlerCall(T)
    \/ \E T \in MsgTypes : QueryGetHandlerCall(T)
    \/ \E T \in MsgTypes : EventGetHandlersCall(T)

NextRegistry ==
    \/ (Ops < MaxOps /\ Register)
    \/ GetHandler
    \/ (NoneInFlight /\ \E k \in 1..MaxOps, j \in 1..MaxRegister, p \in Payloads :
                            HandleCall(k, j, p))
    \/ \E i \in 1..MaxOps : HandleReturn(i)

SpecRegistry == Init /\ [][NextRegistry]_vars

\* One caller holding several handles of one bus: it clones and drops
\* handles and dispatches through any live one, awaiting each dispatch.
NextClone ==
    \/ (BusOps <= MaxOps /\ Register)
    \/ BusNewHandle
    \/ \E b \in 1..MaxHandles : BusCloneHandle(b)
    \/ \E b \in 1..MaxHandles : BusDropHandle(b)
    \/ (NoneInFlight /\ \E b \in 1..MaxHandles, T \in MsgTypes, p \in Payloads : DispatchVia(b, T, p))
    \/ \E i \in 1..MaxDispatch : HandlerReturn(i)

SpecClone == Init /\ [][NextClone]_vars

\* One caller with two buses made from the same register calls: the first
\* by hand, the second in another way. It dispatches through either,
\* awaiting each dispatch.
NextBuild ==
    \/ (BusOps <= MaxOps /\ Register)
    \/ BusNewHandle
    \/ MacroBus
    \/ InterleavedBus
    \/ ReplayedBus
    \/ (NoneInFlight /\ \E b \in 1..MaxHandles, T \in MsgTypes, p \in Payloads : DispatchVia(b, T, p))
    \/ \E i \in 1..MaxDispatch : HandlerReturn(i)

SpecBuild == Init /\ [][NextBuild]_vars

\* Several callers on one bus handle (dispatch takes &self): a dispatch may
\* start while others are suspended in their handlers, and the suspended
\* handlers complete in any order.
NextConcurrent ==
    \/ Register
    \/ BusNew
    \/ Dispatch
    \/ \E i \in 1..MaxDispatch : HandlerReturn(i)

SpecConcurrent == Init /\ [][NextConcurrent]_vars


---------------------------------------------------------------------------
\* Definitions the properties are stated with

Single == kind \in {"command", "query"}
\* The handler map of the command or query registry in use.
SingleHandlers == IF kind = "command" THEN cmdHandlers ELSE qryHandlers
SingleGetHandler(T) == IF kind = "command" THEN CommandGetHandler(T) ELSE QueryGetHandler(T)
\* The handlers passed to register for type T, in the order of the calls.
RegisteredFor(T) ==
    LET regs == SelectSeq(registered, LAMBDA r : r.ty = T)
    IN  [i \in 1..Len(regs) |-> regs[i].handler]
Ids(hs) == [i \in 1..Len(hs) |-> hs[i].id]
CallIds == 1..Len(calls)
Done(c) == c.pc = "done"
MissingHandlerMessage ==
    IF kind = "command" THEN "No handler registered for command"
                        ELSE "No handler registered for query"
\* The least element of a non-empty set of numbers.
Least(S) == CHOOSE x \in S : \A y \in S : x <= y
\* Positions of the handlers registered for T whose handle returns an error.
Failing(T) == {j \in 1..Len(RegisteredFor(T)) : RegisteredFor(T)[j].beh = "Fail"}

---------------------------------------------------------------------------
\* Properties

\* C1: on a CommandBus or QueryBus, a dispatch of a message of a type that has
\* a registered handler invokes that handler exactly once with that message,
\* invokes no other handler, does not abort, and returns exactly the Result
\* the handler produces for the message.
C1_DispatchInvokesRegisteredHandler ==
    Single =>
        \A i \in CallIds :
            LET c == calls[i]
            IN  c.ty \in DOMAIN SingleHandlers =>
                    LET h == SingleHandlers[c.ty].handler
                    IN  /\ Len(c.invoked) = 1
                        /\ c.invoked[1].id = h.id
                        /\ c.invoked[1].msg = c.msg
                        /\ c.pc \in {"handling", "done"}
                        /\ Done(c) => c.outcome = HandlerResult(h, c.msg)

\* A query dispatched with payload 2 to a doubling handler has returned Ok(4).
C1_Witness ==
    /\ kind = "query"
    /\ \E i \in CallIds :
          /\ Done(calls[i])
          /\ calls[i].msg = Msg(2)
          /\ calls[i].outcome = Ok(4)
          /\ Len(calls[i].invoked) = 1

\* C2: in the command and query registries a type has a handler exactly when
\* register was called for it, the handler a lookup reaches is the one of the
\* most recent register call for the type, and a dispatch for the type
\* invokes that handler and never an earlier one.
C2_LastRegisterWins ==
    Single =>
        \A T \in MsgTypes :
            LET regs == RegisteredFor(T)
            IN  /\ (Len(regs) = 0) <=> (T \notin DOMAIN SingleHandlers)
                /\ (Len(regs) = 0) <=> (SingleGetHandler(T).tag = "None")
                /\ Len(regs) > 0 =>
                     /\ SingleGetHandler(T).val.wrapper.handler = regs[Len(regs)]
                     /\ \A i \in CallIds :
                           calls[i].ty = T =>
                               \A j \in 1..Len(calls[i].invoked) :
                                   calls[i].invoked[j].id = regs[Len(regs)].id

\* Two handlers were registered for one command type and a dispatch of that
\* type has returned from the second.
C2_Witness ==
    /\ kind = "command"
    /\ \E i \in CallIds :
          LET regs == RegisteredFor(calls[i].ty)
          IN  /\ Len(regs) >= 2
              /\ regs[1].beh # regs[Len(regs)].beh
              /\ Done(calls[i])
              /\ calls[i].invoked[1].id = regs[Len(regs)].id

\* C3: on a CommandBus or QueryBus, a dispatch of a message whose type has no
\* registered handler aborts, whatever is registered for other types: it has
\* no Ok or Err result, it invokes no handler, and its diagnostic names the
\* bus family and the missing message type.
C3_MissingHandlerAborts ==
    Single =>
        \A i \in CallIds :
            LET c == calls[i]
            IN  c.ty \notin DOMAIN SingleHandlers =>
                    /\ c.pc = "panicked"
                    /\ c.invoked = <<>>
                    /\ c.outcome.tag = "Panic"
                    /\ c.outcome.msg = MissingHandlerMessage
                    /\ c.outcome.ty = c.ty

\* Two dispatches of a type without a handler have both aborted on a command
\* bus that has a handler for another type.
C3_Witness ==
    /\ kind = "command"
    /\ DOMAIN cmdHandlers # {}
    /\ Len(calls) = 2
    /\ \A i \in CallIds : calls[i].pc = "panicked" /\ calls[i].ty \notin DOMAIN cmdHandlers

\* C4: an EventBus dispatch in which every handler succeeded invoked the
\* handlers registered for the event's type in the order of their register
\* calls.
C4_EventOrderIsRegistrationOrder ==
    kind = "event" =>
        \A i \in CallIds :
            LET c == calls[i]
            IN  (Done(c) /\ c.outcome.tag = "Ok") =>
                    Ids(c.invoked) = Ids(RegisteredFor(c.ty))

\* A successful dispatch went through three handlers.
C4_Witness ==
    /\ kind = "event"
    /\ \E i \in CallIds :
          /\ Done(calls[i])
          /\ calls[i].outcome.tag = "Ok"
          /\ Len(calls[i].invoked) = 3

\* C5: when a handler registered for an event type returns an error, a
\* dispatch of that type never invokes a handler registered after the first
\* failing one, and it returns the error of that first failing handler.
C5_EventShortCircuit ==
    kind = "event" =>
        \A i \in CallIds :
            LET c == calls[i]
                regs == RegisteredFor(c.ty)
            IN  Failing(c.ty) # {} =>
                    LET f == Least(Failing(c.ty))
                    IN  /\ Len(c.invoked) <= f
                        /\ \A j \in 1..Len(c.invoked) : c.invoked[j].id = regs[j].id
                        /\ Done(c) =>
                             /\ Len(c.invoked) = f
                             /\ c.outcome = HandlerResult(regs[f], c.msg)
                             /\ c.outcome.tag = "Err"

\* A dispatch returned the error of the second of three handlers, and the
\* third was not invoked.
C5_Witness ==
    /\ kind = "event"
    /\ \E i \in CallIds :
          /\ Done(calls[i])
          /\ calls[i].outcome.tag = "Err"
          /\ Len(calls[i].invoked) = 2
          /\ Len(RegisteredFor(calls[i].ty)) = 3

\* C6: an EventBus dispatch of an event whose type has no registered handler
\* returns Ok(()) and invokes nothing, whatever is registered for other
\* types, whereas a CommandBus or QueryBus dispatch of a type without a
\* handler aborts.
C6_EventWithoutHandlersSucceeds ==
    \A i \in CallIds :
        LET c == calls[i]
        IN  /\ (kind = "event" /\ Len(RegisteredFor(c.ty)) = 0) =>
                 /\ Done(c)
                 /\ c.outcome = Ok(Unit)
                 /\ c.invoked = <<>>
            /\ (Single /\ Len(RegisteredFor(c.ty)) = 0) =>
                 /\ c.pc = "panicked"
                 /\ c.invoked = <<>>

\* An event of a type without handlers was dispatched on a bus that has
\* handlers for another type.
C6_Witness ==
    /\ kind = "event"
    /\ DOMAIN evtHandlers # {}
    /\ \E i \in CallIds :
          /\ calls[i].ty \notin DOMAIN evtHandlers
          /\ Done(calls[i])

\* C7: a successful EventBus dispatch invokes every handler instance
\* registered for the event's type exactly once, two instances of one handler
\* type counting as two, and a dispatch does not use the handlers up: when
\* every registered handler adds the payload to the shared counter and no
\* dispatch is in progress, the counter is the sum over the dispatches made of
\* the number of handlers of the dispatch's type times its payload.
RECURSIVE ExpectedCounter(_)
ExpectedCounter(n) ==
    IF n = 0 THEN 0
    ELSE ExpectedCounter(n - 1) + Len(RegisteredFor(calls[n].ty)) * calls[n].msg.f0

C7_EveryHandlerOncePerDispatch ==
    kind = "event" =>
        /\ \A i \in CallIds :
              LET c == calls[i]
                  regs == RegisteredFor(c.ty)
              IN  (Done(c) /\ c.outcome.tag = "Ok") =>
                      /\ Len(c.invoked) = Len(regs)
                      /\ \A j \in 1..Len(regs) :
                            Cardinality({k \in 1..Len(c.invoked) :
                                            c.invoked[k].id = regs[j].id}) = 1
        /\ ( /\ NoneInFlight
             /\ \A j \in 1..Len(registered) : registered[j].handler.beh = "Inc" )
           => counter = ExpectedCounter(Len(calls))

\* Two counting handlers are registered for one type; Inc(1) and then Inc(2)
\* were dispatched, and the counter stands at 6.
C7_Witness ==
    /\ kind = "event"
    /\ Len(registered) = 2
    /\ \A j \in 1..2 : registered[j].handler.beh = "Inc" /\ registered[j].ty = "T1"
    /\ Len(calls) = 2
    /\ calls[1].ty = "T1" /\ calls[1].msg = Msg(1) /\ Done(calls[1])
    /\ calls[2].ty = "T1" /\ calls[2].msg = Msg(2) /\ Done(calls[2])
    /\ counter = 6

\* C8: every handler an EventBus dispatch invokes receives a message value
\* equal to the one the caller passed to dispatch, whatever the handlers
\* invoked before it did to the values they received.
C8_HandlersReceiveEqualCopies ==
    kind = "event" =>
        \A i \in CallIds :
            \A j \in 1..Len(calls[i].invoked) :
                calls[i].invoked[j].msg = calls[i].msg

\* The first handler of a dispatch changed the value it received, and a
\* second handler was invoked after it.
C8_Witness ==
    /\ kind = "event"
    /\ \E i \in CallIds :
          /\ Len(calls[i].invoked) >= 2
          /\ calls[i].invoked[1].left # calls[i].invoked[1].msg

\* C9: once a registry is in a bus, no step (a dispatch that succeeds, fails
\* or aborts, a handler's completion, a clone or a drop of a bus handle)
\* changes the handlers of any type, and the registry stays in the bus.
C9_RegistryFrozenInBus ==
    [][strong >= 1 =>
          /\ cmdHandlers' = cmdHandlers
          /\ qryHandlers' = qryHandlers
          /\ evtHandlers' = evtHandlers
          /\ registered' = registered
          /\ strong' >= 1]_vars

\* On a cloned command bus with a handler, one dispatch has aborted and
\* another has returned an error.
C9_Witness ==
    /\ kind = "command"
    /\ strong = 2
    /\ DOMAIN cmdHandlers # {}
    /\ \E i \in CallIds : calls[i].pc = "panicked"
    /\ \E i \in CallIds : Done(calls[i]) /\ calls[i].outcome.tag = "Err"

\* C10: on a CommandBus or QueryBus, when the registered handler returns
\* Err(e) for the dispatched message, the dispatch invokes it exactly once,
\* does not abort, and returns Err(e).
C10_HandlerErrorReturnedVerbatim ==
    Single =>
        \A i \in CallIds :
            LET c == calls[i]
            IN  c.ty \in DOMAIN SingleHandlers =>
                    LET h == SingleHandlers[c.ty].handler
                        r == HandlerResult(h, c.msg)
                    IN  r.tag = "Err" =>
                            /\ Len(c.invoked) = 1
                            /\ c.invoked[1].id = h.id
                            /\ c.pc # "panicked"
                            /\ Done(c) => (c.outcome.tag = "Err" /\ c.outcome.val = r.val)

\* A command dispatch has returned the error of its handler.
C10_Witness ==
    /\ kind = "command"
    /\ \E i \in CallIds :
          /\ Done(calls[i])
          /\ calls[i].outcome.tag = "Err"
          /\ Len(calls[i].invoked) = 1
          /\ cmdHandlers[calls[i].ty].handler.beh = "Fail"

\* C11: on an EventBus with several dispatches in flight, interleaved at the
\* suspension points of their handlers, every dispatch on its own invokes the
\* handlers of its event type in registration order, each at most once, each
\* with that dispatch's event; a dispatch that returned Ok invoked them all.
\* The specification leaves the order between steps of different dispatches
\* free.
C11_InterleavedDispatchesKeepOrder ==
    kind = "event" =>
        \A i \in CallIds :
            LET c == calls[i]
                ids == Ids(RegisteredFor(c.ty))
                n == Len(c.invoked)
            IN  /\ n <= Len(ids)
                /\ \A j \in 1..n : c.invoked[j].id = ids[j]
                /\ \A j, k \in 1..n : j # k => c.invoked[j].id # c.invoked[k].id
                /\ \A j \in 1..n : c.invoked[j].msg = c.msg
                /\ (Done(c) /\ c.outcome.tag = "Ok") => n = Len(ids)

\* Two dispatches of one event type with different events are in flight
\* together, the first still in the first handler, the second already in the
\* second handler.
C11_Witness ==
    /\ kind = "event"
    /\ Len(calls) >= 2
    /\ calls[1].ty = calls[2].ty
    /\ calls[1].msg # calls[2].msg
    /\ InFlight(calls[1]) /\ Len(calls[1].invoked) = 1
    /\ InFlight(calls[2]) /\ Len(calls[2].invoked) = 2

\* C12: on a CommandBus or QueryBus with several dispatches in flight, also
\* for one message type with different message values, every dispatch hands
\* its own message to the handler and returns the Result the handler computes
\* for that message, whatever the other dispatches carry and whenever they
\* complete.
C12_ConcurrentDispatchOwnResult ==
    Single =>
        \A i \in CallIds :
            LET c == calls[i]
            IN  Len(c.invoked) > 0 =>
                    LET h == RegisteredFor(c.ty)[Len(RegisteredFor(c.ty))]
                    IN  /\ Len(c.invoked) = 1
                        /\ c.invoked[1].id = h.id
                        /\ c.invoked[1].msg = c.msg
                        /\ c.invoked[1].left = IF InFlight(c) THEN c.msg
                                               ELSE HandlerMutation(h, c.msg)
                        /\ Done(c) => c.outcome = HandlerResult(h, c.msg)

\* Two commands of one type with different values were in flight together;
\* the second has returned its own doubled value while the first is still
\* suspended in the handler.
C12_Witness ==
    /\ kind = "command"
    /\ Len(calls) >= 2
    /\ calls[1].ty = calls[2].ty
    /\ calls[1].msg = Msg(1) /\ calls[2].msg = Msg(2)
    /\ InFlight(calls[1])
    /\ Done(calls[2]) /\ calls[2].outcome = Ok(4)

\* C13: within one EventBus dispatch the handlers run strictly one after
\* another: every handler started before the latest one has completed, so at
\* most one handler of a dispatch is in progress, and one is in progress
\* exactly while the dispatch is suspended in it (or was dropped there).
C13_HandlersOfOneDispatchSequential ==
    kind = "event" =>
        \A i \in CallIds :
            LET c == calls[i]
                n == Len(c.invoked)
                running == {j \in 1..n : ~c.invoked[j].fin}
            IN  /\ \A j \in 1..n : j < n => c.invoked[j].fin
                /\ Cardinality(running) <= 1
                /\ running # {} <=> c.pc \in {"handling", "cancelled"}
                /\ n = c.idx

\* A dispatch is suspended in its third handler after the first two have
\* completed, while another dispatch is in flight as well.
C13_Witness ==
    /\ kind = "event"
    /\ Len(calls) >= 2
    /\ InFlight(calls[1])
    /\ Len(calls[1].invoked) = 3
    /\ calls[1].invoked[1].fin /\ calls[1].invoked[2].fin /\ ~calls[1].invoked[3].fin
    /\ InFlight(calls[2])

\* What the completed handler invocations of the first n dispatches added.
RECURSIVE CompletedEffects(_)
CompletedEffects(n) ==
    IF n = 0
    THEN 0
    ELSE CompletedEffects(n - 1) + InvokedEffects(calls[n].invoked, Len(calls[n].invoked))

\* An EventBus dispatch dropped while suspended in handler i: handlers 1..i
\* of its list were started and no other, 1..i-1 completed, i did not, and
\* the dispatch has no outcome.
CancelledAt(c) ==
    /\ c.pc = "cancelled"
    /\ c.idx >= 1
    /\ Len(c.invoked) = c.idx
    /\ \A j \in 1..c.idx : c.invoked[j].id = c.list[j].wrapper.handler.id
    /\ \A j \in 1..(c.idx - 1) : c.invoked[j].fin
    /\ ~c.invoked[c.idx].fin
    /\ c.outcome = NoneV

\* C14: an EventBus dispatch that is cancelled while suspended in handler i
\* stays as it was at that moment for ever: handlers i+1..N are never
\* started, handler i is not resumed and no handler is run again; and what
\* the completed handlers 1..i-1 did stays done: the counter always holds the
\* contributions of all completed handler invocations, those of cancelled
\* dispatches included.
C14_CancelStopsWithoutRollback ==
    /\ [](kind = "event" =>
            /\ \A i \in CallIds : calls[i].pc = "cancelled" => CancelledAt(calls[i])
            /\ counter = CompletedEffects(Len(calls)))
    /\ [][kind = "event" =>
            \A i \in CallIds :
                calls[i].pc = "cancelled" => calls'[i] = calls[i]]_vars

\* A dispatch of an event with three handlers was dropped in the second
\* handler after the first had added the payload 2 to the counter, and a later
\* dispatch has completed since.
C14_Witness ==
    /\ kind = "event"
    /\ Len(calls) >= 2
    /\ calls[1].pc = "cancelled"
    /\ Len(calls[1].list) = 3
    /\ calls[1].idx = 2
    /\ calls[1].msg = Msg(2)
    /\ calls[1].invoked[1].fin
    /\ Done(calls[2])
    /\ counter >= 2

\* The list map m keeps for T, empty when m has no entry for T.
ListOf(m, T) == IF T \in DOMAIN m THEN m[T] ELSE <<>>
\* This step is a register call for T.
RegisterStepFor(T) ==
    /\ Len(registered') = Len(registered) + 1
    /\ registered'[Len(registered')].ty = T

\* C15: in the EventHandlerRegistry every step keeps each type's list as a
\* prefix of its new list, so no list is ever shortened or reordered; a list
\* grows only by a register call for its type, and that call makes the list
\* (created if it was absent) exactly one longer with the handler passed to it
\* in the last place.
C15_EventRegisterAppends ==
    [][kind = "event" =>
          \A T \in MsgTypes :
              LET old == ListOf(evtHandlers, T)
                  new == ListOf(evtHandlers', T)
              IN  /\ Len(new) >= Len(old)
                  /\ SubSeq(new, 1, Len(old)) = old
                  /\ T \in DOMAIN evtHandlers => T \in DOMAIN evtHandlers'
                  /\ Len(new) > Len(old) <=> RegisterStepFor(T)
                  /\ RegisterStepFor(T) =>
                        /\ T \in DOMAIN evtHandlers'
                        /\ Len(new) = Len(old) + 1
                        /\ new[Len(new)] =
                               Wrapper(T, registered'[Len(registered')].handler)]_vars

\* One event type has a list of three handlers in the order of their
\* registration, built up from an absent entry.
C15_Witness ==
    /\ kind = "event"
    /\ \E T \in MsgTypes :
          /\ T \in DOMAIN evtHandlers
          /\ Len(evtHandlers[T]) = 3
          /\ \A j \in 1..3 : evtHandlers[T][j].handler = RegisteredFor(T)[j]

\* C16: in each of the three registries a register call for T leaves every
\* other type U as it was: its map entry, and what get_handler (command,
\* query) and get_handlers (event) return for U, are the same before and after
\* the call; and a dispatch of a message of type U only ever invokes handlers
\* that were registered for U.
C16_RegisterChangesOnlyItsType ==
    /\ [][\A T \in MsgTypes :
            RegisterStepFor(T) =>
                \A U \in MsgTypes \ {T} :
                    /\ MapGet(cmdHandlers', U) = MapGet(cmdHandlers, U)
                    /\ MapGet(qryHandlers', U) = MapGet(qryHandlers, U)
                    /\ MapGet(evtHandlers', U) = MapGet(evtHandlers, U)
                    /\ CommandGetHandler(U)' = CommandGetHandler(U)
                    /\ QueryGetHandler(U)' = QueryGetHandler(U)
                    /\ EventGetHandlers(U)' = EventGetHandlers(U)]_vars
    /\ [](\A i \in CallIds :
            \A j \in 1..Len(calls[i].invoked) :
                registered[calls[i].invoked[j].id].ty = calls[i].ty)

\* A handler was registered for T1 after one for T2, and a dispatch of a T2
\* message has come back from the T2 handler alone.
C16_Witness ==
    /\ Len(registered) >= 2
    /\ registered[1].ty = "T2"
    /\ registered[2].ty = "T1"
    /\ \E i \in CallIds :
          /\ calls[i].ty = "T2"
          /\ Done(calls[i])
          /\ Len(calls[i].invoked) = 1
          /\ calls[i].invoked[1].id = 1

\* The handlers passed to register for T by the first n register calls.
RegisteredBefore(T, n) ==
    LET regs == SelectSeq(SubSeq(registered, 1, n), LAMBDA r : r.ty = T)
    IN  [i \in 1..Len(regs) |-> regs[i].handler]

\* Direct call c, made on a handle, has done what handler h does with the
\* call's message: h and no other handler was invoked, once, with that
\* message, the call did not abort, and once over it has h's Result.
BehavesAs(c, h) ==
    /\ Len(c.invoked) = 1
    /\ c.invoked[1].id = h.id
    /\ c.invoked[1].msg = c.msg
    /\ c.pc \in {"handling", "done"}
    /\ Done(c) => c.outcome = HandlerResult(h, c.msg)

\* C17: get_handler of the command and query registries returns None for a
\* type exactly when no register call for the type has been made before the
\* lookup, so for every type on a new registry; otherwise it returns Some
\* handle for that type around the handler registered for it, and a call of
\* handle on it does what that handler does.
C17_GetHandlerNoneIffUnregistered ==
    Single =>
        /\ \A k \in 1..Len(lookups) :
              LET l == lookups[k]
                  regs == RegisteredBefore(l.ty, l.at)
              IN  /\ l.got.tag \in {"None", "Some"}
                  /\ l.got.tag = "None" <=> Len(regs) = 0
                  /\ l.got.tag = "Some" =>
                        /\ l.got.val.ty = l.ty
                        /\ l.got.val.wrapper.handler = regs[Len(regs)]
        /\ \A T \in MsgTypes :
              SingleGetHandler(T).tag = "None" <=> Len(RegisteredFor(T)) = 0
        /\ \A i \in CallIds :
              LET l == lookups[calls[i].from[1]]
                  regs == RegisteredBefore(l.ty, l.at)
              IN  /\ calls[i].ty = l.ty
                  /\ BehavesAs(calls[i], regs[Len(regs)])

\* On one query registry a lookup made before any register call returned
\* None, a later lookup for the same type returned Some, and handle called on
\* it with payload 2 returned the doubling handler's Ok(4).
C17_Witness ==
    /\ kind = "query"
    /\ Len(lookups) >= 2
    /\ lookups[1].at = 0 /\ lookups[1].got = NoneV
    /\ lookups[2].ty = lookups[1].ty /\ lookups[2].got.tag = "Some"
    /\ \E i \in CallIds :
          /\ calls[i].from = <<2, 1>>
          /\ calls[i].msg = Msg(2)
          /\ Done(calls[i])
          /\ calls[i].outcome = Ok(4)

\* C18: get_handlers of the EventHandlerRegistry always returns a list: the
\* empty list when no handler was registered for the type before the lookup,
\* otherwise one handle for each handler registered for the type, all of
\* them, in registration order; and a call of handle on any of them does what
\* the handler in that place does.
C18_GetHandlersListsAllInOrder ==
    kind = "event" =>
        /\ \A k \in 1..Len(lookups) :
              LET l == lookups[k]
                  regs == RegisteredBefore(l.ty, l.at)
              IN  /\ DOMAIN l.got = 1..Len(regs)
                  /\ \A j \in 1..Len(regs) :
                        /\ l.got[j].ty = l.ty
                        /\ l.got[j].wrapper.handler = regs[j]
        /\ \A T \in MsgTypes :
              Ids([j \in 1..Len(EventGetHandlers(T)) |-> EventGetHandlers(T)[j].wrapper.handler])
                  = Ids(RegisteredFor(T))
        /\ \A i \in CallIds :
              LET l == lookups[calls[i].from[1]]
                  regs == RegisteredBefore(l.ty, l.at)
              IN  /\ calls[i].ty = l.ty
                  /\ BehavesAs(calls[i], regs[calls[i].from[2]])

\* On one event registry a lookup for a type without handlers returned the
\* empty list, a lookup for a type with two handlers of different behaviour
\* returned both, and handle called on the second of them has completed.
C18_Witness ==
    /\ kind = "event"
    /\ \E k \in 1..Len(lookups) : lookups[k].got = <<>>
    /\ \E k \in 1..Len(lookups) :
          /\ Len(lookups[k].got) = 2
          /\ lookups[k].got[1].wrapper.handler.beh # lookups[k].got[2].wrapper.handler.beh
          /\ \E i \in CallIds :
                /\ calls[i].from = <<k, 2>>
                /\ Done(calls[i])
                /\ calls[i].invoked[1].id = lookups[k].got[2].wrapper.handler.id

\* Dispatch call c is over: it returned or it aborted.
Over(c) == c.pc \in {"done", "panicked"}
\* The handler instances call c invoked, in the order of invocation.
InvokedIds(c) == [j \in 1..Len(c.invoked) |-> c.invoked[j].id]

\* C19: every live handle of a bus, the original and each clone, gives access
\* to the one registry the bus was made from; two dispatches of equal
\* messages, through whichever handles, invoke the same handler instances in
\* the same order and end with the same outcome; and a step that clones or
\* drops a handle leaves the registry and what every other handle sees as it
\* was.
C19_CloneSharesRegistry ==
    /\ [](/\ \A b \in 1..Len(buses) : buses[b].registry = Registry
          /\ buses # <<>> =>
                strong = Cardinality({b \in 1..Len(buses) : buses[b].live})
          /\ \A i, j \in CallIds :
                LET c == calls[i]
                    d == calls[j]
                IN  (c.ty = d.ty /\ c.msg = d.msg /\ Over(c) /\ Over(d)) =>
                        /\ InvokedIds(c) = InvokedIds(d)
                        /\ c.pc = d.pc
                        /\ c.outcome = d.outcome)
    /\ [][strong' # strong =>
            /\ Registry' = Registry
            /\ \A b \in 1..Len(buses) : buses'[b].registry = buses[b].registry
            /\ calls' = calls]_vars

\* An event with two handlers was dispatched through a clone and, with an
\* equal value, through the original handle; both dispatches ran the two
\* handlers, and the clone has been dropped.
C19_Witness ==
    /\ kind = "event"
    /\ Len(buses) >= 2
    /\ ~buses[2].live
    /\ \E i, j \in CallIds :
          /\ calls[i].via = 2
          /\ calls[j].via = 1
          /\ calls[i].ty = calls[j].ty
          /\ calls[i].msg = calls[j].msg
          /\ Done(calls[i]) /\ Done(calls[j])
          /\ Len(calls[i].invoked) = 2
          /\ Len(calls[j].invoked) = 2

\* The wrappers map m holds for key T: one in a command or query registry,
\* a list in an event registry, none without an entry.
WrappersAt(m, T) ==
    IF T \notin DOMAIN m THEN <<>> ELSE IF kind = "event" THEN m[T] ELSE <<m[T]>>
\* The handlers map of the registry in use.
Handlers ==
    CASE kind = "command" -> cmdHandlers
      [] kind = "query" -> qryHandlers
      [] kind = "event" -> evtHandlers
\* Call c aborted on a failed downcast of the message or of the Result.
DowncastAbort(c) ==
    /\ c.pc = "panicked"
    /\ c.outcome.tag = "Panic"
    /\ c.outcome.msg \in {DowncastMessage, DowncastResultMessage}

\* C20: in every state reached through register, Bus::new, clone, drop and
\* dispatch, every wrapper stored under key T was built from a handler for
\* T and is the wrapper of a handler passed to register for T; every handle
\* a dispatch of T works with is a handle for T around such a wrapper; so
\* no dispatch ever aborts on the downcast of the message or of the Result.
C20_ErasureNeverMismatches ==
    /\ \A T \in MsgTypes :
          \A j \in 1..Len(WrappersAt(Handlers, T)) :
              LET w == WrappersAt(Handlers, T)[j]
              IN  /\ w.tid = T
                  /\ \E n \in 1..Len(RegisteredFor(T)) : RegisteredFor(T)[n] = w.handler
    /\ \A i \in CallIds :
          LET c == calls[i]
          IN  /\ \A j \in 1..Len(c.list) :
                    /\ c.list[j].ty = c.ty
                    /\ c.list[j].wrapper.tid = c.ty
              /\ ~DowncastAbort(c)
              /\ \A j \in 1..Len(c.invoked) :
                    c.invoked[j].fin => c.pc \in {"handling", "done"}

\* Handlers are registered for both command types, and a dispatch of each
\* type has gone through both downcasts and returned its handler's Result.
C20_Witness ==
    /\ kind = "command"
    /\ DOMAIN cmdHandlers = MsgTypes
    /\ \A T \in MsgTypes :
          \E i \in CallIds :
              /\ calls[i].ty = T
              /\ Done(calls[i])
              /\ calls[i].invoked[1].fin
              /\ calls[i].outcome.tag \in {"Ok", "Err"}

\* C21: erasing and un-erasing changes no value. For every call of handle
\* on a handle obtained from a registry, of any family: the message the
\* wrapped handler received is the message the caller passed, and the Result
\* the caller obtained is the Result the wrapped handler returned for it, be
\* it Ok or Err; neither downcast fails.
C21_ErasureRoundTrip ==
    \A i \in CallIds :
        LET c == calls[i]
            h == c.list[1].wrapper.handler
        IN  /\ Len(c.list) = 1
            /\ Len(c.invoked) = 1
            /\ c.invoked[1].id = h.id
            /\ c.invoked[1].msg = c.msg
            /\ ~DowncastAbort(c)
            /\ c.invoked[1].fin <=> Done(c)
            /\ Done(c) => c.outcome = HandlerResult(h, c.msg)

\* On one event registry handle was called with payload 1 on a counting
\* handler, which received that payload and returned Ok(()), and with payload
\* 2 on a failing handler, which received that payload and whose error came
\* back.
C21_Witness ==
    /\ kind = "event"
    /\ \E i, j \in CallIds :
          /\ calls[i].msg = Msg(1)
          /\ calls[i].invoked[1].msg = Msg(1)
          /\ calls[i].outcome = Ok(Unit)
          /\ calls[j].msg = Msg(2)
          /\ calls[j].invoked[1].msg = Msg(2)
          /\ calls[j].list[1].wrapper.handler.beh = "Fail"
          /\ calls[j].outcome = Err(calls[j].list[1].wrapper.handler.id)

\* What the first n handlers registered for T add to the counter when each
\* is given message m.
RECURSIVE EffectsOfFirst(_, _, _)
EffectsOfFirst(T, m, n) ==
    IF n = 0
    THEN 0
    ELSE EffectsOfFirst(T, m, n - 1) + HandlerEffect(RegisteredFor(T)[n], m)
\* The number of handlers a complete dispatch of an event of type T runs: all
\* of them, or those up to the first that fails.
RunBy(T) == IF Failing(T) = {} THEN Len(RegisteredFor(T)) ELSE Least(Failing(T))
\* What the first n dispatches add to the counter when each runs to its end.
RECURSIVE EffectsOfDispatches(_)
EffectsOfDispatches(n) ==
    IF n = 0
    THEN 0
    ELSE EffectsOfDispatches(n - 1)
         + EffectsOfFirst(calls[n].ty, calls[n].msg, RunBy(calls[n].ty))

\* C22: an EventBus dispatch that returned the error of the handler at
\* position i ran the handlers 1..i once each, in order, and none again; and
\* whenever no dispatch is in flight the counter holds what the handlers
\* before the failing one added in every dispatch made, nothing taken back.
C22_EventErrorNoRollback ==
    kind = "event" =>
        /\ \A i \in CallIds :
              LET c == calls[i]
              IN  (Done(c) /\ c.outcome.tag = "Err") =>
                      /\ Failing(c.ty) # {}
                      /\ InvokedIds(c) = SubSeq(Ids(RegisteredFor(c.ty)), 1,
                                                Least(Failing(c.ty)))
                      /\ \A j \in 1..Len(c.invoked) : c.invoked[j].fin
        /\ NoneInFlight => counter = EffectsOfDispatches(Len(calls))

\* Two counting handlers and then a failing one are registered for an event
\* type; a dispatch with payload 2 has returned the third handler's error and
\* the counter stands at 4.
C22_Witness ==
    /\ kind = "event"
    /\ \E i \in CallIds :
          /\ Done(calls[i])
          /\ calls[i].outcome = Err(3)
          /\ Len(calls[i].invoked) = 3
          /\ calls[i].msg = Msg(2)
    /\ Len(calls) = 1
    /\ counter = 4

\* Call c is no longer running: it returned, aborted or was dropped.
Ended(c) == c.pc \in {"done", "panicked", "cancelled"}

\* C23: the bus does no work outside a dispatch call. A dispatch that
\* returned or aborted has no handler in progress; a dispatch that returned,
\* aborted or was dropped stays as it is for ever, so none of its handlers
\* starts or goes on afterwards; and every step in which a handler starts,
\* completes or changes the counter is the first step of a dispatch call or
\* a step of a dispatch in flight.
C23_NoWorkOutsideDispatch ==
    /\ [](\A i \in CallIds :
            LET c == calls[i]
            IN  /\ Over(c) => \A j \in 1..Len(c.invoked) : c.invoked[j].fin
                /\ (\E j \in 1..Len(c.invoked) : ~c.invoked[j].fin)
                       => c.pc \in {"handling", "cancelled"})
    /\ [][/\ \A i \in CallIds : Ended(calls[i]) => calls'[i] = calls[i]
          /\ (calls' # calls \/ counter' # counter) =>
                \/ /\ Len(calls') = Len(calls) + 1
                   /\ SubSeq(calls', 1, Len(calls)) = calls
                   /\ counter' = counter
                \/ /\ Len(calls') = Len(calls)
                   /\ \E i \in CallIds :
                         /\ InFlight(calls[i])
                         /\ \A n \in CallIds \ {i} : calls'[n] = calls[n]]_vars

\* On a command bus one dispatch has aborted for want of a handler, and a
\* later one was dropped while its handler was running.
C23_Witness ==
    /\ kind = "command"
    /\ Len(calls) = 2
    /\ calls[1].pc = "panicked"
    /\ calls[2].pc = "cancelled"
    /\ Len(calls[2].invoked) = 1

\* Dispatches i and j were given equal messages and are over.
SameDispatch(i, j) ==
    /\ calls[i].ty = calls[j].ty
    /\ calls[i].msg = calls[j].msg
    /\ Over(calls[i]) /\ Over(calls[j])
\* Dispatches i and j invoked the same handler instances in the same order,
\* gave them the same values and ended in the same way.
SameRun(i, j) ==
    /\ calls[i].invoked = calls[j].invoked
    /\ calls[i].pc = calls[j].pc
    /\ calls[i].outcome = calls[j].outcome
\* The second bus exists and was made in the way named.
Second(made) == Len(buses) = 2 /\ buses[2].made = made

\* C24: a bus made by command_bus!, query_bus! or event_bus! from the pairs
\* 'Ti => hi' is equivalent to the bus made by hand with register::<Ti>(hi)
\* in the listed order and Bus::new: both hold the same registry, so for a
\* repeated command or query type the handler listed last and for an event
\* type all handlers in listed order; and two dispatches of equal messages,
\* one through each, invoke the same handlers in the same order with the
\* same outcome.
C24_MacroBusEqualsManualBus ==
    Second("macro") =>
        /\ buses[2].registry = buses[1].registry
        /\ \A T \in MsgTypes :
              LET regs == RegisteredFor(T)
              IN  IF kind = "event"
                  THEN Ids([j \in 1..Len(WrappersAt(buses[2].registry.evt, T)) |->
                               WrappersAt(buses[2].registry.evt, T)[j].handler])
                           = Ids(regs)
                  ELSE LET m == IF kind = "command" THEN buses[2].registry.cmd
                                                    ELSE buses[2].registry.qry
                       IN  IF Len(regs) = 0
                           THEN T \notin DOMAIN m
                           ELSE T \in DOMAIN m /\ m[T].handler = regs[Len(regs)]
        /\ \A i, j \in CallIds :
              (SameDispatch(i, j) /\ calls[i].via = 1 /\ calls[j].via = 2)
                  => SameRun(i, j)

\* command_bus! was given a command type twice, with a failing and then a
\* doubling handler; a dispatch through the bus made by hand and one through
\* the macro's bus have both returned Ok(4) for payload 2.
C24_Witness ==
    /\ kind = "command"
    /\ Second("macro")
    /\ Len(registered) = 2
    /\ registered[1].ty = registered[2].ty
    /\ registered[1].handler.beh = "Fail"
    /\ registered[2].handler.beh = "Double"
    /\ \E i, j \in CallIds :
          /\ calls[i].via = 1 /\ calls[j].via = 2
          /\ calls[i].outcome = Ok(4) /\ calls[j].outcome = Ok(4)

\* C25: a CommandBus or QueryBus keeps nothing from one call to the next.
\* The step in which a dispatch aborts for want of a handler changes neither
\* the registry nor any bus handle; and a dispatch made after an aborted
\* one, through the same handle or another, for a type that has a handler,
\* invokes that handler once with its message and returns the handler's
\* Result, as a dispatch does when nothing aborted before.
C25_NoStateAfterAbort ==
    /\ [](Single =>
            \A i, j \in CallIds :
                LET c == calls[j]
                    regs == RegisteredFor(c.ty)
                IN  (i < j /\ calls[i].pc = "panicked" /\ Len(regs) > 0) =>
                        /\ Len(c.invoked) = 1
                        /\ c.invoked[1].id = regs[Len(regs)].id
                        /\ c.invoked[1].msg = c.msg
                        /\ c.pc \in {"handling", "done"}
                        /\ Done(c) => c.outcome = HandlerResult(regs[Len(regs)], c.msg))
    /\ [][(/\ Len(calls') = Len(calls) + 1
           /\ calls'[Len(calls')].pc = "panicked") =>
              /\ Registry' = Registry
              /\ buses' = buses
              /\ strong' = strong
              /\ counter' = counter
              /\ SubSeq(calls', 1, Len(calls)) = calls]_vars

\* On a query bus with a doubling handler for T1 only, a dispatch of a T2
\* query through the first handle aborted, and a later dispatch of a T1
\* query with payload 1 through a clone returned Ok(2).
C25_Witness ==
    /\ kind = "query"
    /\ Len(calls) = 2
    /\ calls[1].ty = "T2" /\ calls[1].pc = "panicked" /\ calls[1].via = 1
    /\ calls[2].ty = "T1" /\ calls[2].via = 2
    /\ calls[2].msg = Msg(1)
    /\ calls[2].outcome = Ok(2)

\* C26: an EventBus dispatch made after a dispatch of the same event type
\* returned a handler's error begins at the first handler again and goes
\* through the handlers in registration order, the one that failed included:
\* what it has invoked is always the registered handlers from position 1 on,
\* and once over it has invoked the same handlers as the failed dispatch and
\* returned the same handler's error.
C26_RedispatchStartsAtFirst ==
    kind = "event" =>
        \A i, j \in CallIds :
            LET c == calls[i]
                d == calls[j]
            IN  (i < j /\ c.ty = d.ty /\ Done(c) /\ c.outcome.tag = "Err") =>
                    /\ Len(d.invoked) >= 1
                    /\ InvokedIds(d) = SubSeq(Ids(RegisteredFor(d.ty)), 1, Len(d.invoked))
                    /\ Over(d) =>
                          /\ InvokedIds(d) = InvokedIds(c)
                          /\ d.outcome = c.outcome

\* A counting handler and then a failing one are registered for an event
\* type; two dispatches of that type, one after the other, have each run both
\* handlers and returned the second handler's error.
C26_Witness ==
    /\ kind = "event"
    /\ Len(calls) = 2
    /\ calls[1].ty = calls[2].ty
    /\ calls[1].outcome = Err(2)
    /\ calls[2].outcome = Err(2)
    /\ InvokedIds(calls[1]) = <<1, 2>>
    /\ InvokedIds(calls[2]) = <<1, 2>>
    /\ registered[1].handler.beh = "Inc"

\* C27: a handle that get_handler of the command or query registry returned
\* for T keeps the handler that was registered when the lookup was made. A
\* register step changes no lookup result already returned; a call of handle
\* made after T was registered again still invokes the handler of the
\* lookup's time and returns its Result; and of two lookups for T with a
\* register call for T between them, the later one holds the new handler.
C27_HandleKeepsHandlerOfLookup ==
    /\ [](Single =>
            /\ \A i \in CallIds :
                  LET c == calls[i]
                      l == lookups[c.from[1]]
                      then == RegisteredBefore(l.ty, l.at)
                  IN  Len(RegisteredBefore(l.ty, c.at)) > Len(then) =>
                          /\ c.invoked[1].id = then[Len(then)].id
                          /\ Done(c) => c.outcome = HandlerResult(then[Len(then)], c.msg)
            /\ \A k1, k2 \in 1..Len(lookups) :
                  LET l1 == lookups[k1]
                      l2 == lookups[k2]
                      r1 == RegisteredBefore(l1.ty, l1.at)
                      r2 == RegisteredBefore(l2.ty, l2.at)
                  IN  (l1.ty = l2.ty /\ Len(r1) > 0 /\ Len(r2) > Len(r1)) =>
                          /\ l1.got.val.wrapper.handler = r1[Len(r1)]
                          /\ l2.got.val.wrapper.handler = r2[Len(r2)]
                          /\ l2.got.val.wrapper.handler.id # l1.got.val.wrapper.handler.id)
    /\ [][SubSeq(lookups', 1, Len(lookups)) = lookups]_vars

\* On a command registry a failing handler was registered for T1 and looked
\* up, then a doubling handler was registered for T1; handle called afterwards
\* on the handle of the lookup has returned the first handler's error.
C27_Witness ==
    /\ kind = "command"
    /\ Len(registered) = 2
    /\ registered[1].ty = registered[2].ty
    /\ registered[1].handler.beh = "Fail"
    /\ registered[2].handler.beh = "Double"
    /\ \E i \in CallIds :
          /\ calls[i].from = <<1, 1>>
          /\ lookups[1].at = 1
          /\ calls[i].at = 2
          /\ calls[i].outcome = Err(1)

\* C28: the list get_handlers returned is a snapshot. A register call on the
\* event registry leaves the length, the content and the order of every list
\* returned before as they were, also for the type it registers for; and a
\* get_handlers call made after it for that type returns the earlier list
\* followed by the handlers added since.
C28_GetHandlersSnapshot ==
    /\ [][(kind = "event" /\ registered' # registered) =>
              /\ Len(lookups') = Len(lookups)
              /\ \A k \in 1..Len(lookups) :
                    /\ Len(lookups'[k].got) = Len(lookups[k].got)
                    /\ \A j \in 1..Len(lookups[k].got) : lookups'[k].got[j] = lookups[k].got[j]]_vars
    /\ [](kind = "event" =>
            \A k1, k2 \in 1..Len(lookups) :
                LET l1 == lookups[k1]
                    l2 == lookups[k2]
                    added == SubSeq(RegisteredBefore(l2.ty, l2.at),
                                    Len(l1.got) + 1, Len(RegisteredBefore(l2.ty, l2.at)))
                IN  (l1.ty = l2.ty /\ l1.at <= l2.at) =>
                        /\ Len(l2.got) = Len(l1.got) + Len(added)
                        /\ SubSeq(l2.got, 1, Len(l1.got)) = l1.got
                        /\ \A j \in 1..Len(added) :
                              l2.got[Len(l1.got) + j].wrapper.handler = added[j])

\* On an event registry get_handlers for a type returned one handler, a
\* second handler was registered for the type, and a new get_handlers call
\* returned both while the first list still holds one.
C28_Witness ==
    /\ kind = "event"
    /\ Len(lookups) = 2
    /\ lookups[1].ty = lookups[2].ty
    /\ lookups[1].at = 1
    /\ lookups[2].at = 2
    /\ registered[2].ty = lookups[1].ty
    /\ Len(lookups[1].got) = 1
    /\ Len(lookups[2].got) = 2
    /\ lookups[2].got[1] = lookups[1].got[1]
    /\ lookups[2].got[2].wrapper.handler = registered[2].handler

\* C29: in an event registry the list of a type depends only on the order
\* of the register calls for that type. A registry filled with the same
\* calls, interleaved differently with the calls for other types, holds for
\* every type the same handlers in the same order, the order of the register
\* calls for the type; a dispatch through its bus invokes them in that
\* order; and two dispatches of equal messages, one through each bus, invoke
\* the same handlers in the same order with the same outcome.
C29_OrderPerTypeOnly ==
    (kind = "event" /\ Second("interleaved")) =>
        /\ \A T \in MsgTypes :
              /\ WrappersAt(buses[2].registry.evt, T) = WrappersAt(buses[1].registry.evt, T)
              /\ Ids([j \in 1..Len(WrappersAt(buses[2].registry.evt, T)) |->
                         WrappersAt(buses[2].registry.evt, T)[j].handler])
                     = Ids(RegisteredFor(T))
        /\ \A i \in CallIds :
              (calls[i].via = 2 /\ Over(calls[i])) =>
                  InvokedIds(calls[i])
                      = SubSeq(Ids(RegisteredFor(calls[i].ty)), 1, Len(calls[i].invoked))
        /\ \A i, j \in CallIds :
              (SameDispatch(i, j) /\ calls[i].via = 1 /\ calls[j].via = 2)
                  => SameRun(i, j)

\* Two handlers were registered for one event type with a register call for
\* another type between them; the second registry got the call for the other
\* type first; a dispatch through its bus has invoked the two handlers in the
\* order of their register calls.
C29_Witness ==
    /\ kind = "event"
    /\ Second("interleaved")
    /\ Len(registered) = 3
    /\ registered[1].ty = registered[3].ty
    /\ registered[2].ty # registered[1].ty
    /\ buses[2].pairs = <<registered[2], registered[1], registered[3]>>
    /\ \E i \in CallIds :
          /\ calls[i].via = 2
          /\ Done(calls[i])
          /\ InvokedIds(calls[i]) = <<registered[1].handler.id, registered[3].handler.id>>

=============================================================================
